---------------------------- MODULE Spec2Model ----------------------------
(***************************************************************************)
(* A model of the CitationMap pipeline (citation_map/citation_map.py and   *)
(* citation_map/scholarly_support.py).                                     *)
(*                                                                         *)
(* Four specifications share the module, one per component:                *)
(*   SpecClean  clean_affiliation_names and __country_aware_comma_split    *)
(*   SpecGeo    affiliation_text_to_geocode                                *)
(*   SpecWalk   get_citing_author_ids_and_citing_papers                    *)
(*   SpecRuns   generate_citation_map with its checkpoint file             *)
(* Each specification leaves the variables of the others at rest.          *)
(*                                                                         *)
(* Text is modelled as a sequence of lexical tokens: a word (a maximal run *)
(* of word characters, so that the regular expressions' \b falls exactly   *)
(* at token borders) or one punctuation mark.  Whitespace between tokens   *)
(* is implicit, so a token sequence is always a strip()ped string and the  *)
(* empty sequence is the empty (or whitespace-only) string.                *)
(***************************************************************************)
EXTENDS Integers, Sequences, FiniteSets, TLC

VARIABLES
    \* ---- clean_affiliation_names -------------------------------------
    cleanPc,        \* "ready" | "cleaned" | "renormalized"
    cleanInput,     \* author_paper_affiliation_tuple_list handed to the call
    cleanOutput,    \* the list the call returned
    renormOutput,   \* per returned record: the result of cleaning it again
    \* ---- affiliation_text_to_geocode ---------------------------------
    geoPc,          \* "idle" | "start" | "loop" | "done"
    geoInput,       \* author_paper_affiliation_tuple_list handed to the call
    max_attempts,   \* the call's max_attempts
    affiliation_map,        \* the dict, as its items in insertion order
    nameIdx,        \* position of the outer loop in affiliation_map
    attempt,        \* turns of "for _ in range(max_attempts)" taken for this name
    coordinates_and_info,   \* the list being built, returned at the end
    num_located_affiliations,
    geoLog,         \* the forward-geocode calls made, each with its outcome
    \* ---- get_citing_author_ids_and_citing_papers ---------------------
    walkPc,         \* "idle" | "start" | "nav" | "done"
    site,           \* the citation source: page number -> [links, blocked]
    current_page_number,
    navigation_buttons,     \* the list found on the seed page
    navIdx,         \* position of the for loop in navigation_buttons
    citing_authors_and_citing_papers,   \* the list being built, returned
    walkLog,        \* the sleeps and page requests made, in order
    \* ---- generate_citation_map ---------------------------------------
    runPc,          \* position of the run; "idle" between runs
    fs,             \* the checkpoint files: path -> pickled bytes, <<>> if absent
    scholar_id,
    cache_path,     \* os.path.join(cache_folder, scholar_id, ...) or None
    cache_found,    \* the branch taken at line 387
    affiliation_conservative,
    publications,   \* number of publications on the author's profile
    all_publications,       \* per filled publication: whether it has a cites_id
    all_publication_info,   \* the publications that have a cites_id
    itemIdx,        \* position of the current stage's loop
    all_citing_author_paper_tuple_list,
    author_paper_affiliation_tuple_list,
    geocoder_input, \* the list handed to affiliation_text_to_geocode
    runLog,         \* the sleeps and requests of this run, in order, each
                    \* request with the function that issues it
    firstCrawl,     \* history: per author, the non-empty list returned by
                    \* the crawl of a caching run that found no checkpoint
    \* ---- __country_aware_comma_split --------------------------------
    splitPc,        \* "idle" | "ready" | "done"
    splitInput,     \* string_list handed to the call
    splitOutput     \* comma_split_list, the list the call returned

cleanVars == <<cleanPc, cleanInput, cleanOutput, renormOutput>>

geoVars == <<geoPc, geoInput, max_attempts, affiliation_map, nameIdx, attempt,
             coordinates_and_info, num_located_affiliations, geoLog>>

walkVars == <<walkPc, site, current_page_number, navigation_buttons, navIdx,
              citing_authors_and_citing_papers, walkLog>>

runVars == <<runPc, fs, scholar_id, cache_path, cache_found,
             affiliation_conservative, publications, all_publications,
             all_publication_info,
             itemIdx, all_citing_author_paper_tuple_list,
             author_paper_affiliation_tuple_list, geocoder_input, runLog,
             firstCrawl>>

splitVars == <<splitPc, splitInput, splitOutput>>

vars == <<cleanVars, geoVars, walkVars, runVars, splitVars>>

\* The variables each component leaves alone.
notCleanVars == <<geoVars, walkVars, runVars, splitVars>>
notGeoVars == <<cleanVars, walkVars, runVars, splitVars>>
notWalkVars == <<cleanVars, geoVars, runVars, splitVars>>
notRunVars == <<cleanVars, geoVars, walkVars, splitVars>>
notSplitVars == <<cleanVars, geoVars, walkVars, runVars>>

-----------------------------------------------------------------------------
(* Bounds *)

\* Longest raw affiliation string, in tokens.
MaxTokens == 3

\* Longest list handed to affiliation_text_to_geocode.
MaxGeoRecords == 2

\* Largest max_attempts handed to affiliation_text_to_geocode.
MaxAttempts == 3

\* Number of result pages the citation source holds for one publication.
MaxPages == 3

\* Largest number of publications on an author's profile.
MaxPubs == 2

\* Largest number of comma-separated components of a string handed to
\* __country_aware_comma_split.
MaxParts == 3

-----------------------------------------------------------------------------
(* Text *)

\* Python's None where a string is expected (next(sub_parts_iter, None)).
None == <<"<None>">>

\* The tokens raw affiliation strings are drawn from.
Alphabet ==
    {"Acme", "Director", "USA", "UK", "at", "and", ";", ",", "@",
     "department", "of"}

\* str.lower() / re.IGNORECASE on one token.
Lower(tok) ==
    CASE tok = "Acme" -> "acme"
      [] tok = "Director" -> "director"
      [] tok = "USA" -> "usa"
      [] tok = "UK" -> "uk"
      [] tok = "Meta" -> "meta"
      [] tok = "AI" -> "ai"
      [] tok = "MIT" -> "mit"
      [] OTHER -> tok

LowerSeq(s) == [i \in 1..Len(s) |-> Lower(s[i])]

\* The sequences of at most n tokens.
RECURSIVE TokenSeqs(_)
TokenSeqs(n) ==
    IF n = 0 THEN {<<>>}
    ELSE LET shorter == TokenSeqs(n - 1)
         IN  shorter \cup {Append(s, t) : s \in {x \in shorter : Len(x) = n - 1},
                                          t \in Alphabet}

\* re.split on a set of separator tokens: k separators give k + 1 parts,
\* empty parts included, each part strip()ped.
RECURSIVE SplitFrom(_, _, _, _)
SplitFrom(s, seps, i, cur) ==
    IF i > Len(s) THEN <<cur>>
    ELSE IF s[i] \in seps THEN <<cur>> \o SplitFrom(s, seps, i + 1, <<>>)
    ELSE SplitFrom(s, seps, i + 1, Append(cur, s[i]))

SplitOn(s, seps) == SplitFrom(s, seps, 1, <<>>)

\* Concatenation of a sequence of sequences.
RECURSIVE Flatten(_)
Flatten(ss) == IF ss = <<>> THEN <<>> ELSE Head(ss) \o Flatten(Tail(ss))

-----------------------------------------------------------------------------
(* __iscountry: pycountry.countries.lookup, an exact, case-insensitive     *)
(* lookup of the whole string among the registry's codes and names.  The   *)
(* registry is sampled; "UK" is no entry of it (the United Kingdom is GB,  *)
(* GBR, "United Kingdom").  A lookup of None or of "" finds nothing.       *)

CountryRegistry ==
    {<<"us">>, <<"usa">>, <<"united", "states">>,
     <<"gb">>, <<"gbr">>, <<"united", "kingdom">>,
     <<"cn">>, <<"chn">>, <<"china">>}

iscountry(string) == string # None /\ LowerSeq(string) \in CountryRegistry

-----------------------------------------------------------------------------
(* __country_aware_comma_split *)

\* The loop over sub_parts_iter: each turn takes sub_part and, unless it
\* is a country, also takes next_part from the same iterator.
RECURSIVE MergeSubParts(_, _)
MergeSubParts(sub_parts, i) ==
    IF i > Len(sub_parts) THEN <<>>
    ELSE IF iscountry(sub_parts[i]) THEN MergeSubParts(sub_parts, i + 1)
    ELSE LET sub_part == sub_parts[i]
             next_part == IF i + 1 <= Len(sub_parts) THEN sub_parts[i + 1] ELSE None
         IN  IF iscountry(next_part)
             THEN <<sub_part \o <<",">> \o next_part>> \o MergeSubParts(sub_parts, i + 2)
             ELSE <<sub_part>>
                  \o (IF next_part # None /\ next_part # <<>> THEN <<next_part>> ELSE <<>>)
                  \o MergeSubParts(sub_parts, i + 2)

\* re.split(r'[,<U+FF0C>]', part): the ASCII comma and the fullwidth comma
\* U+FF0C, written here as the token "U+FF0C".
COMMAS == {",", "U+FF0C"}

country_aware_comma_split(string_list) ==
    Flatten([k \in 1..Len(string_list) |->
                MergeSubParts(SplitOn(string_list[k], COMMAS), 1)])

-----------------------------------------------------------------------------
(* clean_affiliation_names *)

\* The single-word alternatives of the identity pattern.
IDENTITY_WORDS ==
    {"director", "manager", "chair", "engineer", "programmer", "scientist",
     "professor", "lecturer", "phd", "ph.d", "postdoc", "doctor", "student"}

\* re.search of the identity pattern, missing re.IGNORECASE.
is_common_identity_string_CaseSensitive(s) ==
    \E i \in 1..Len(s) :
        \/ s[i] \in IDENTITY_WORDS
        \/ i < Len(s) /\ s[i] = "department" /\ s[i + 1] = "of"

\* re.search(r'\b(director|...|department of)\b', s, re.IGNORECASE)
is_common_identity_string(s) ==
    \E i \in 1..Len(s) :
        \/ Lower(s[i]) \in IDENTITY_WORDS
        \/ i < Len(s) /\ Lower(s[i]) = "department" /\ Lower(s[i + 1]) = "of"

\* One match of r'.*?\bat\b|.*?@' starting at token i: the index of the
\* first 'at' (any case) or '@' at or after i, 0 when there is none.
RECURSIVE FirstAt(_, _)
FirstAt(s, i) ==
    IF i > Len(s) THEN 0
    ELSE IF Lower(s[i]) = "at" \/ s[i] = "@" THEN i
    ELSE FirstAt(s, i + 1)

\* re.sub with count=1: only the first match is removed.
strip_before_at_FirstOnly(s) ==
    LET j == FirstAt(s, 1)
    IN  IF j = 0 THEN s ELSE SubSeq(s, j + 1, Len(s))

\* re.sub(r'.*?\bat\b|.*?@', '', substring, flags=re.IGNORECASE).strip():
\* every non-overlapping match is removed, left to right.
RECURSIVE strip_before_at(_)
strip_before_at(s) ==
    LET j == FirstAt(s, 1)
    IN  IF j = 0 THEN s ELSE strip_before_at(SubSeq(s, j + 1, Len(s)))

\* The units of one affiliation string: split on ';' or the word 'and',
\* then the country-aware comma split.
substring_list(affiliation_string) ==
    country_aware_comma_split(SplitOn(affiliation_string, {";", "and"}))

\* The loop with the identity pattern searched in substring, the text
\* before the strip.
RECURSIVE CleanUnits_FilterRawText(_, _)
CleanUnits_FilterRawText(rec, units) ==
    IF units = <<>> THEN <<>>
    ELSE LET cleaned_affiliation == strip_before_at(Head(units))
         IN  (IF ~is_common_identity_string(Head(units))
              THEN <<<<rec[1], rec[2], rec[3], cleaned_affiliation>>>>
              ELSE <<>>)
             \o CleanUnits_FilterRawText(rec, Tail(units))

\* The records one input record fans out to.
RECURSIVE CleanUnits(_, _)
CleanUnits(rec, units) ==
    IF units = <<>> THEN <<>>
    ELSE LET cleaned_affiliation == strip_before_at(Head(units))
         IN  (IF ~is_common_identity_string(cleaned_affiliation)
              THEN <<<<rec[1], rec[2], rec[3], cleaned_affiliation>>>>
              ELSE <<>>)
             \o CleanUnits(rec, Tail(units))

clean_affiliation_names(tuple_list) ==
    Flatten([k \in 1..Len(tuple_list) |->
                CleanUnits(tuple_list[k], substring_list(tuple_list[k][4]))])

-----------------------------------------------------------------------------
(* affiliation_text_to_geocode *)

\* scholarly_support.KNOWN_AFFILIATION_DICT: lower-case company name ->
\* (county, city, state, country, latitude, longitude), the coordinates in
\* millionths of a degree.  citation_map.py imports only
\* get_citing_author_ids_and_citing_papers and get_organization_name from
\* scholarly_support: no code of the pipeline reads this table.
KNOWN_AFFILIATION_DICT ==
    (<<"amazon">> :> <<"King County", "Seattle", "Washington", "USA", 47622721, -122337176>>)
 @@ (<<"meta">> :> <<"Menlo Park", "San Mateo", "California", "USA", 37485100, -122148300>>)
 @@ (<<"microsoft">> :> <<"King County", "Redmond", "Washington", "USA", 47645695, -122131803>>)
 @@ (<<"ibm">> :> <<"Westchester", "Armonk", "New York", "USA", 41108252, -73719887>>)
 @@ (<<"google">> :> <<"Santa Clara", "Mountain View", "California", "USA", 37421473, -122080679>>)
 @@ (<<"morgan", "stanley">> :> <<"New York", "New York", "New York", "USA", 40760251, -73985180>>)
 @@ (<<"siemens", "healthineers">> :> <<"Forchheim", "Forchheim", "Bavaria", "Germany", 49702088, 11055870>>)
 @@ (<<"oracle">> :> <<"Travis", "Austin", "Texas", "USA", 30242913, -97721641>>)

\* The institution names of the records handed to the geocoder.
GeoNames == {<<"Meta", "AI">>, <<"MIT">>}

\* The (author_name, citing_paper_title, cited_paper_title, affiliation)
\* records handed to the geocoder.
GeoRecords ==
    {<<author, "citing paper", "cited paper", name>> :
        author \in {"Ada", "Bob"}, name \in GeoNames}

\* The lists of at most n such records.
RECURSIVE GeoLists(_)
GeoLists(n) ==
    IF n = 0 THEN {<<>>}
    ELSE LET shorter == GeoLists(n - 1)
         IN  shorter \cup {Append(l, r) : l \in {x \in shorter : Len(x) = n - 1},
                                          r \in GeoRecords}

\* What geolocator.geocode may return when it finds the place: the service
\* is free to answer the same query differently from call to call.
Locations ==
    {[latitude |-> 42360091, longitude |-> -71094160],
     [latitude |-> 37485100, longitude |-> -122148300]}

\* location_metadata.raw['address'] for a location: a dict that holds some
\* of the keys county, city, state, country.
AddressOf(loc) ==
    IF loc.latitude = 42360091
    THEN [county |-> <<"Middlesex", "County">>, city |-> <<"Cambridge">>,
          state |-> <<"Massachusetts">>, country |-> <<"United", "States">>]
    ELSE [state |-> <<"California">>, country |-> <<"United", "States">>]

\* address[key] if key in address, else None.
AddressField(address, key) ==
    IF key \in DOMAIN address THEN address[key] ELSE None

\* The position of name among the keys of the dict m, 0 if it is no key.
KeyIndex(m, name) ==
    IF \E k \in 1..Len(m) : m[k].name = name
    THEN CHOOSE k \in 1..Len(m) : m[k].name = name
    ELSE 0

\* The first loop with one key per entry: no grouping by name.
RECURSIVE BuildAffiliationMap_PerEntry(_, _, _)
BuildAffiliationMap_PerEntry(tuple_list, entry_idx, m) ==
    IF entry_idx > Len(tuple_list) THEN m
    ELSE BuildAffiliationMap_PerEntry(tuple_list, entry_idx + 1,
             Append(m, [name |-> tuple_list[entry_idx][4], entries |-> <<entry_idx>>]))

\* The first loop: affiliation_map[affiliation_name] is the list of the
\* indices of the entries that carry the name; keys in insertion order.
RECURSIVE BuildAffiliationMap(_, _, _)
BuildAffiliationMap(tuple_list, entry_idx, m) ==
    IF entry_idx > Len(tuple_list) THEN m
    ELSE LET affiliation_name == tuple_list[entry_idx][4]
             k == KeyIndex(m, affiliation_name)
         IN  BuildAffiliationMap(tuple_list, entry_idx + 1,
                 IF k = 0
                 THEN Append(m, [name |-> affiliation_name, entries |-> <<entry_idx>>])
                 ELSE [m EXCEPT ![k].entries = Append(@, entry_idx)])

\* The tuples appended for the entries of one located name.
EmitRecords(tuple_list, corresponding_entries, geo_location, address) ==
    [k \in 1..Len(corresponding_entries) |->
        LET entry == tuple_list[corresponding_entries[k]]
        IN  <<entry[1], entry[2], entry[3], entry[4],
              geo_location.latitude, geo_location.longitude,
              AddressField(address, "county"), AddressField(address, "city"),
              AddressField(address, "state"), AddressField(address, "country")>>]

\* The loop position after a located name, without the break: the inner
\* loop goes on to its next turn.
after_located_NoBreak(idx, turns) == <<idx, turns + 1>>

\* The loop position <<nameIdx, attempt>> after a located name: break leaves
\* the inner loop, the outer loop takes the next name.
after_located(idx, turns) == <<idx + 1, 0>>

-----------------------------------------------------------------------------
(* scholarly_support: get_html_per_citation_page and                       *)
(* get_citing_author_ids_and_citing_papers                                 *)

NO_AUTHOR_FOUND_STR == <<"No_author_found">>

Pages == 1..MaxPages

\* The result blocks (div.gs_ri) of result page p.  Page 2 lists a paper
\* without any author link; every third page holds a block without title.
PageResults(p) ==
    IF p = 2
    THEN <<[title_tag |-> TRUE, title |-> <<"paper", p>>, user_links |-> <<>>]>>
    ELSE IF p % 3 = 0
    THEN <<[title_tag |-> FALSE, title |-> <<"untitled", p>>, user_links |-> <<>>],
           [title_tag |-> TRUE, title |-> <<"paper", p>>,
            user_links |-> <<<<"author", p>>>>]>>
    ELSE <<[title_tag |-> TRUE, title |-> <<"paper", p>>,
            user_links |-> <<<<"author", p>>, <<"coauthor", p>>>>]>>

\* The (author_id, title) pairs of one result block.
ResultPairs(result) ==
    IF ~result.title_tag THEN <<>>
    ELSE IF result.user_links = <<>>
    THEN <<<<NO_AUTHOR_FOUND_STR, result.title>>>>
    ELSE [k \in 1..Len(result.user_links) |-> <<result.user_links[k], result.title>>]

\* get_html_per_citation_page(soup) for the soup of a page; a block page
\* holds no result block.
get_html_per_citation_page(page, p) ==
    IF page.blocked THEN <<>>
    ELSE Flatten([k \in 1..Len(PageResults(p)) |-> ResultPairs(PageResults(p)[k])])

\* The ascending sequence of the numbers of a set.
RECURSIVE Ascending(_)
Ascending(S) ==
    IF S = {} THEN <<>>
    ELSE LET least == CHOOSE x \in S : \A y \in S : x <= y
         IN  <<least>> \o Ascending(S \ {least})

\* The citation sources: every page shows numbered links (a.gs_nma) to
\* some of the other pages, in ascending order; at most one page answers
\* with a block page ('Access Denied' / 'Forbidden'), which shows no link.
Sites ==
    {s \in [Pages -> [links : {Ascending(S) : S \in SUBSET Pages},
                      blocked : BOOLEAN]] :
        /\ \A p \in Pages : \A k \in 1..Len(s[p].links) : s[p].links[k] # p
        /\ \A p \in Pages : s[p].blocked => s[p].links = <<>>
        /\ \A p, q \in Pages : (s[p].blocked /\ s[q].blocked) => p = q}

\* The requests of the walk so far: time.sleep(random.uniform(1, 5)) and
\* driver.get of a page.
Slept(log) == Append(log, <<"sleep">>)
Got(log, p) == Append(log, <<"get", p>>)

-----------------------------------------------------------------------------
(* generate_citation_map: the checkpoint file and the stages before the    *)
(* geocoder                                                                *)

\* The Google Scholar ids the pipeline is run for.
ScholarIds == {"a1", "a2"}

\* os.path.join(cache_folder, scholar_id, 'all_citing_author_paper_tuple_list.pkl')
CachePathOf(cache_folder, id) ==
    IF cache_folder = None THEN None ELSE <<cache_folder[1], id>>

\* The checkpoint paths under the cache folder "cache".
CachePaths == {CachePathOf(<<"cache">>, id) : id \in ScholarIds}

\* No file at a path.
NoFile == <<>>

\* os.path.exists(cache_path)
path_exists(files, path) == files[path] # NoFile

\* pickle.dump of a list of 3-tuples: the opcode stream that rebuilds it.
PickleOp(op, arg) == [op |-> op, arg |-> arg]

Pickle(data) ==
    <<PickleOp("EMPTY_LIST", <<>>)>>
    \o Flatten([k \in 1..Len(data) |->
          <<PickleOp("PUSH", data[k][1]), PickleOp("PUSH", data[k][2]),
            PickleOp("PUSH", data[k][3]), PickleOp("TUPLE3", <<>>),
            PickleOp("APPEND", <<>>)>>])
    \o <<PickleOp("STOP", <<>>)>>

\* pickle.load: the stack machine that runs the opcode stream.
RECURSIVE UnpickleFrom(_, _, _)
UnpickleFrom(bytes, i, stack) ==
    LET n == Len(stack)
        ins == bytes[i]
    IN  CASE ins.op = "EMPTY_LIST" -> UnpickleFrom(bytes, i + 1, Append(stack, <<>>))
          [] ins.op = "PUSH" -> UnpickleFrom(bytes, i + 1, Append(stack, ins.arg))
          [] ins.op = "TUPLE3" ->
                 UnpickleFrom(bytes, i + 1,
                     Append(SubSeq(stack, 1, n - 3),
                            <<stack[n - 2], stack[n - 1], stack[n]>>))
          [] ins.op = "APPEND" ->
                 UnpickleFrom(bytes, i + 1,
                     Append(SubSeq(stack, 1, n - 2), Append(stack[n - 1], stack[n])))
          [] ins.op = "STOP" -> stack[n]

Unpickle(bytes) == UnpickleFrom(bytes, 1, <<>>)

\* save_cache(data, fpath): the files after the call.
save_cache(files, data, fpath) == [files EXCEPT ![fpath] = Pickle(data)]

\* load_cache(fpath)
load_cache(files, fpath) == Unpickle(files[fpath])

\* The branch condition of line 387 when the cache is never looked at.
no_checkpoint_IgnoresFile(files, path) == TRUE

\* Line 387: cache_path is None or not os.path.exists(cache_path).
no_checkpoint(files, path) == path = None \/ ~path_exists(files, path)

\* The save condition without the test for an empty list.
should_save_AlsoEmpty(path, tuple_list) == path # None

\* Line 395: cache_path is not None and len(all_citing_author_paper_tuple_list) > 0.
should_save(path, tuple_list) == path # None /\ Len(tuple_list) > 0

\* The two functions of generate_citation_map that issue requests.
CRAWL == "find_all_citing_authors"

AFFILIATIONS == "find_all_citing_affiliations"

\* What get_citing_author_ids_and_citing_papers returns for the citation
\* list of publication i when it is served: author 1 cites every
\* publication; the second publication is also cited by a paper without
\* author link.
CitingPairs(i) ==
    IF i = 2
    THEN <<<<<<"author", 1>>, <<"paper", i>>>>,
           <<NO_AUTHOR_FOUND_STR, <<"other paper", i>>>>>>
    ELSE IF i % 2 = 1
    THEN <<<<<<"author", 1>>, <<"paper", i>>>>>>
    ELSE <<<<<<"author", i>>, <<"paper", i>>>>>>

\* __citing_authors_and_papers_from_publication: the pairs with the title
\* of the cited paper.
citing_author_paper_info(pairs, cited_paper_title) ==
    [k \in 1..Len(pairs) |-> <<pairs[k][1], pairs[k][2], cited_paper_title>>]

\* citing_author['name'] of the profile found for a citing author id.
NameOf(citing_author_id) == <<"name of", citing_author_id>>

\* citing_author['affiliation'] of a citing author who has one: what the
\* author typed into the affiliation panel.
AffiliationsOf(citing_author_id) ==
    IF citing_author_id = <<"author", 1>>
    THEN {<<"Director", "at", "Acme">>, <<"Director">>}
    ELSE {<<"Meta", "AI">>}

\* get_organization_name(citing_author['organization']) when it is served.
OrganizationOf(citing_author_id) == <<"Acme">>

\* The elements of a list.
SetOf(tuple_list) == {tuple_list[k] : k \in 1..Len(tuple_list)}

\* list(set(tuple_list)): the tuples of the list, each once.  The order of
\* the result is unspecified and nothing downstream depends on it; it is
\* the order of first occurrence here.
RECURSIVE unique_tuples(_)
unique_tuples(tuple_list) ==
    IF tuple_list = <<>> THEN <<>>
    ELSE LET n == Len(tuple_list)
             before == unique_tuples(SubSeq(tuple_list, 1, n - 1))
         IN  IF tuple_list[n] \in SetOf(before) THEN before
             ELSE Append(before, tuple_list[n])

\* The merge of lines 427-432 without the list(set(...)) of line 434.
merged_with_cleaned_NotUnique(raw) == raw \o clean_affiliation_names(raw)

\* Lines 426-434: the cleaned records of the raw records are appended to
\* the raw records, and the unique tuples are taken.
merged_with_cleaned(raw) == unique_tuples(raw \o clean_affiliation_names(raw))

-----------------------------------------------------------------------------
(* Each component at rest, in the specifications of the other components.  *)

IdleSplit ==
    /\ splitPc = "idle"
    /\ splitInput = <<>>
    /\ splitOutput = <<>>

IdleClean ==
    /\ cleanPc = "idle"
    /\ cleanInput = <<>>
    /\ cleanOutput = <<>>
    /\ renormOutput = <<>>

IdleGeo ==
    /\ geoPc = "idle"
    /\ geoInput = <<>>
    /\ max_attempts = 0
    /\ affiliation_map = <<>>
    /\ nameIdx = 0
    /\ attempt = 0
    /\ coordinates_and_info = <<>>
    /\ num_located_affiliations = 0
    /\ geoLog = <<>>

IdleWalk ==
    /\ walkPc = "idle"
    /\ site = <<>>
    /\ current_page_number = 0
    /\ navigation_buttons = <<>>
    /\ navIdx = 0
    /\ citing_authors_and_citing_papers = <<>>
    /\ walkLog = <<>>

\* No run of generate_citation_map is under way.
NoRun ==
    /\ runPc = "idle"
    /\ scholar_id = ""
    /\ cache_path = None
    /\ cache_found = FALSE
    /\ affiliation_conservative = FALSE
    /\ publications = 0
    /\ all_publications = <<>>
    /\ all_publication_info = <<>>
    /\ itemIdx = 0
    /\ all_citing_author_paper_tuple_list = <<>>
    /\ author_paper_affiliation_tuple_list = <<>>
    /\ geocoder_input = <<>>
    /\ runLog = <<>>

IdleRuns ==
    /\ NoRun
    /\ fs = [path \in CachePaths |-> NoFile]
    /\ firstCrawl = [id \in ScholarIds |-> <<>>]

-----------------------------------------------------------------------------
(* SpecClean: the cleaner applied to every raw affiliation string, and     *)
(* applied again to each record it returned.                               *)

RawStrings == TokenSeqs(MaxTokens)

InitClean ==
    /\ cleanPc = "ready"
    /\ \E raw \in RawStrings :
           cleanInput = <<<<"Jane Doe", "citing paper", "cited paper", raw>>>>
    /\ cleanOutput = <<>>
    /\ renormOutput = <<>>
    /\ IdleGeo
    /\ IdleWalk
    /\ IdleRuns
    /\ IdleSplit

CleanCall ==
    /\ cleanPc = "ready"
    /\ cleanOutput' = clean_affiliation_names(cleanInput)
    /\ cleanPc' = "cleaned"
    /\ UNCHANGED <<cleanInput, renormOutput>>
    /\ UNCHANGED notCleanVars

CleanAgain ==
    /\ cleanPc = "cleaned"
    /\ renormOutput' = [k \in 1..Len(cleanOutput) |->
                           clean_affiliation_names(<<cleanOutput[k]>>)]
    /\ cleanPc' = "renormalized"
    /\ UNCHANGED <<cleanInput, cleanOutput>>
    /\ UNCHANGED notCleanVars

NextClean == CleanCall \/ CleanAgain

SpecClean == InitClean /\ [][NextClean]_vars

-----------------------------------------------------------------------------
(* SpecGeo: affiliation_text_to_geocode on every list of at most           *)
(* MaxGeoRecords records, with every max_attempts up to MaxAttempts and    *)
(* every answer the geocoding service can give.  One action per turn of    *)
(* the inner loop.                                                         *)

InitGeo ==
    /\ geoPc = "start"
    /\ geoInput \in GeoLists(MaxGeoRecords)
    /\ max_attempts \in 0..MaxAttempts
    /\ affiliation_map = <<>>
    /\ nameIdx = 0
    /\ attempt = 0
    /\ coordinates_and_info = <<>>
    /\ num_located_affiliations = 0
    /\ geoLog = <<>>
    /\ IdleClean
    /\ IdleWalk
    /\ IdleRuns
    /\ IdleSplit

\* Lines 129-144: the dict of unique affiliations is built.
GeoBuildMap ==
    /\ geoPc = "start"
    /\ affiliation_map' = BuildAffiliationMap(geoInput, 1, <<>>)
    /\ nameIdx' = 1
    /\ attempt' = 0
    /\ geoPc' = "loop"
    /\ UNCHANGED <<geoInput, max_attempts, coordinates_and_info,
                   num_located_affiliations, geoLog>>
    /\ UNCHANGED notGeoVars

\* A turn of the inner loop is open for the current name.
InAttempt ==
    /\ geoPc = "loop"
    /\ nameIdx <= Len(affiliation_map)
    /\ attempt < max_attempts

\* A turn that locates nothing; the loop goes to its next turn.
AttemptFails(outcome) ==
    /\ InAttempt
    /\ geoLog' = Append(geoLog, <<affiliation_map[nameIdx].name, outcome>>)
    /\ attempt' = attempt + 1
    /\ UNCHANGED <<geoPc, geoInput, max_attempts, affiliation_map, nameIdx,
                   coordinates_and_info, num_located_affiliations>>
    /\ UNCHANGED notGeoVars

\* geolocator.geocode raises (line 151): except, continue.
GeoForwardRaises == AttemptFails("forward_failed")

\* geolocator.geocode returns None (line 152): the turn ends.
GeoForwardNoResult == AttemptFails("forward_failed")

\* geolocator.reverse raises (line 154): except, continue.
GeoReverseRaises == AttemptFails("reverse_failed")

\* geolocator.reverse returns None: .raw raises (line 155), except, continue.
GeoReverseNoResult == AttemptFails("reverse_failed")

\* Lines 151-174: both lookups succeed, the entries of the name are
\* appended, break.
GeoLocated ==
    /\ InAttempt
    /\ \E geo_location \in Locations :
        LET affiliation_name == affiliation_map[nameIdx].name
            address == AddressOf(geo_location)
            corresponding_entries == affiliation_map[nameIdx].entries
            position == after_located(nameIdx, attempt)
        IN  /\ geoLog' = Append(geoLog, <<affiliation_name, "ok",
                                          geo_location.latitude, geo_location.longitude>>)
            /\ coordinates_and_info' =
                   coordinates_and_info
                   \o EmitRecords(geoInput, corresponding_entries, geo_location, address)
            /\ num_located_affiliations' = num_located_affiliations + 1
            /\ nameIdx' = position[1]
            /\ attempt' = position[2]
    /\ UNCHANGED <<geoPc, geoInput, max_attempts, affiliation_map>>
    /\ UNCHANGED notGeoVars

\* range(max_attempts) is exhausted: the outer loop takes the next name.
GeoNextName ==
    /\ geoPc = "loop"
    /\ nameIdx <= Len(affiliation_map)
    /\ attempt >= max_attempts
    /\ nameIdx' = nameIdx + 1
    /\ attempt' = 0
    /\ UNCHANGED <<geoPc, geoInput, max_attempts, affiliation_map,
                   coordinates_and_info, num_located_affiliations, geoLog>>
    /\ UNCHANGED notGeoVars

\* Lines 177-179: the outer loop is over; the list is filtered for None
\* entries (it holds none) and returned.
GeoReturn ==
    /\ geoPc = "loop"
    /\ nameIdx > Len(affiliation_map)
    /\ geoPc' = "done"
    /\ coordinates_and_info' =
           SelectSeq(coordinates_and_info, LAMBDA item : item # None)
    /\ UNCHANGED <<geoInput, max_attempts, affiliation_map, nameIdx, attempt,
                   num_located_affiliations, geoLog>>
    /\ UNCHANGED notGeoVars

NextGeo ==
    \/ GeoBuildMap
    \/ GeoForwardRaises
    \/ GeoForwardNoResult
    \/ GeoReverseRaises
    \/ GeoReverseNoResult
    \/ GeoLocated
    \/ GeoNextName
    \/ GeoReturn

SpecGeo == InitGeo /\ [][NextGeo]_vars

-----------------------------------------------------------------------------
(* SpecWalk: get_citing_author_ids_and_citing_papers(paper_url) on every   *)
(* citation source of MaxPages pages; paper_url is page 1.  One action per *)
(* turn of the loop over navigation_buttons.  wait_for_captcha blocks      *)
(* until the user has solved the CAPTCHA and changes nothing else.         *)

InitWalk ==
    /\ walkPc = "start"
    /\ site \in Sites
    /\ current_page_number = 0
    /\ navigation_buttons = <<>>
    /\ navIdx = 0
    /\ citing_authors_and_citing_papers = <<>>
    /\ walkLog = <<>>
    /\ IdleClean
    /\ IdleGeo
    /\ IdleRuns
    /\ IdleSplit

\* Lines 116-131: the seed page is a block page; the walk returns [].
WalkSeedBlocked ==
    /\ walkPc = "start"
    /\ site[1].blocked
    /\ walkLog' = Got(Slept(walkLog), 1)
    /\ walkPc' = "done"
    /\ UNCHANGED <<site, current_page_number, navigation_buttons, navIdx,
                   citing_authors_and_citing_papers>>
    /\ UNCHANGED notWalkVars

\* Lines 116-138: the seed page is fetched, its records are extracted and
\* its navigation links are collected.
WalkSeed ==
    /\ walkPc = "start"
    /\ ~site[1].blocked
    /\ walkLog' = Got(Slept(walkLog), 1)
    /\ current_page_number' = 1
    /\ citing_authors_and_citing_papers' =
           citing_authors_and_citing_papers \o get_html_per_citation_page(site[1], 1)
    /\ navigation_buttons' = site[1].links
    /\ navIdx' = 1
    /\ walkPc' = "nav"
    /\ UNCHANGED site
    /\ UNCHANGED notWalkVars

\* Lines 139-150: the button is numbered current_page_number + 1; its page
\* is fetched and its records are extracted.
WalkFollow ==
    /\ walkPc = "nav"
    /\ navIdx <= Len(navigation_buttons)
    /\ navigation_buttons[navIdx] = current_page_number + 1
    /\ LET next_page == navigation_buttons[navIdx]
       IN  /\ current_page_number' = current_page_number + 1
           /\ walkLog' = Got(Slept(walkLog), next_page)
           /\ citing_authors_and_citing_papers' =
                  citing_authors_and_citing_papers
                  \o get_html_per_citation_page(site[next_page], next_page)
    /\ navIdx' = navIdx + 1
    /\ UNCHANGED <<walkPc, site, navigation_buttons>>
    /\ UNCHANGED notWalkVars

\* Lines 151-152: any other button; continue.
WalkSkip ==
    /\ walkPc = "nav"
    /\ navIdx <= Len(navigation_buttons)
    /\ navigation_buttons[navIdx] # current_page_number + 1
    /\ navIdx' = navIdx + 1
    /\ UNCHANGED <<walkPc, site, current_page_number, navigation_buttons,
                   citing_authors_and_citing_papers, walkLog>>
    /\ UNCHANGED notWalkVars

\* Line 154: the loop over navigation_buttons is over.
WalkReturn ==
    /\ walkPc = "nav"
    /\ navIdx > Len(navigation_buttons)
    /\ walkPc' = "done"
    /\ UNCHANGED <<site, current_page_number, navigation_buttons, navIdx,
                   citing_authors_and_citing_papers, walkLog>>
    /\ UNCHANGED notWalkVars

NextWalk ==
    \/ WalkSeedBlocked
    \/ WalkSeed
    \/ WalkFollow
    \/ WalkSkip
    \/ WalkReturn

SpecWalk == InitWalk /\ [][NextWalk]_vars

-----------------------------------------------------------------------------
(* SpecRuns: any sequence of runs of generate_citation_map over the same   *)
(* cache folder, up to the hand-over to the geocoder (SpecGeo).  A run is  *)
(* a sequence of steps, one per external call of its loops; the pooled     *)
(* path (num_processes > 1) makes the same calls per item as the           *)
(* sequential one and is not told apart.  An exception of scholarly or of  *)
(* the driver is caught nowhere but in lines 258-263: it ends the run.     *)

InitRuns ==
    /\ IdleRuns
    /\ IdleClean
    /\ IdleGeo
    /\ IdleWalk
    /\ IdleSplit

\* The run is over (return, or an exception left generate_citation_map).
EndRun ==
    /\ runPc' = "idle"
    /\ scholar_id' = ""
    /\ cache_path' = None
    /\ cache_found' = FALSE
    /\ affiliation_conservative' = FALSE
    /\ publications' = 0
    /\ all_publications' = <<>>
    /\ all_publication_info' = <<>>
    /\ itemIdx' = 0
    /\ all_citing_author_paper_tuple_list' = <<>>
    /\ author_paper_affiliation_tuple_list' = <<>>
    /\ geocoder_input' = <<>>
    /\ runLog' = <<>>

\* Lines 376-387: a run starts; cache_path is computed and looked up.
RunStart ==
    /\ runPc = "idle"
    /\ \E id \in ScholarIds, cache_folder \in {None, <<"cache">>},
          conservative \in BOOLEAN :
        LET path == CachePathOf(cache_folder, id)
            missing == no_checkpoint(fs, path)
        IN  /\ scholar_id' = id
            /\ cache_path' = path
            /\ affiliation_conservative' = conservative
            /\ cache_found' = ~missing
            /\ runPc' = IF missing THEN "profile" ELSE "load"
    /\ UNCHANGED <<fs, publications, all_publications, all_publication_info,
                   itemIdx, all_citing_author_paper_tuple_list,
                   author_paper_affiliation_tuple_list, geocoder_input, runLog,
                   firstCrawl>>
    /\ UNCHANGED notRunVars

\* Lines 399-406: the checkpoint is loaded.
RunLoad ==
    /\ runPc = "load"
    /\ all_citing_author_paper_tuple_list' = load_cache(fs, cache_path)
    /\ runPc' = "affiliations"
    /\ itemIdx' = 1
    /\ UNCHANGED <<fs, scholar_id, cache_path, cache_found,
                   affiliation_conservative, publications, all_publications,
                   all_publication_info, author_paper_affiliation_tuple_list,
                   geocoder_input, runLog, firstCrawl>>
    /\ UNCHANGED notRunVars

\* Lines 28-31: the author's profile and publication list are fetched.
CrawlProfile ==
    /\ runPc = "profile"
    /\ \E n \in 0..MaxPubs : publications' = n
    /\ runLog' = runLog \o <<<<"search_author_id", scholar_id, CRAWL>>,
                             <<"fill_publications", scholar_id, CRAWL>>>>
    /\ runPc' = "fill"
    /\ itemIdx' = 1
    /\ UNCHANGED <<fs, scholar_id, cache_path, cache_found,
                   affiliation_conservative, all_publications,
                   all_publication_info, all_citing_author_paper_tuple_list,
                   author_paper_affiliation_tuple_list, geocoder_input,
                   firstCrawl>>
    /\ UNCHANGED notRunVars

\* Lines 41-44 and 234-236: one publication is filled.
CrawlFill ==
    /\ runPc = "fill"
    /\ itemIdx <= publications
    /\ \E has_cites_id \in BOOLEAN :
           all_publications' = Append(all_publications, has_cites_id)
    /\ runLog' = Append(Slept(runLog), <<"fill", itemIdx, CRAWL>>)
    /\ itemIdx' = itemIdx + 1
    /\ UNCHANGED <<runPc, fs, scholar_id, cache_path, cache_found,
                   affiliation_conservative, publications, all_publication_info,
                   all_citing_author_paper_tuple_list,
                   author_paper_affiliation_tuple_list, geocoder_input,
                   firstCrawl>>
    /\ UNCHANGED notRunVars

\* Lines 46-53: the publications with a cites_id are listed.
CrawlBuildInfo ==
    /\ runPc = "fill"
    /\ itemIdx > publications
    /\ all_publication_info' =
           SelectSeq([i \in 1..publications |-> i], LAMBDA i : all_publications[i])
    /\ runPc' = "cites"
    /\ itemIdx' = 1
    /\ UNCHANGED <<fs, scholar_id, cache_path, cache_found,
                   affiliation_conservative, publications, all_publications,
                   all_citing_author_paper_tuple_list,
                   author_paper_affiliation_tuple_list, geocoder_input, runLog,
                   firstCrawl>>
    /\ UNCHANGED notRunVars

\* Lines 63-67 and 238-245: the citing authors and papers of one
\* publication are enumerated (SpecWalk); a blocked seed page gives [].
CrawlCites ==
    /\ runPc = "cites"
    /\ itemIdx <= Len(all_publication_info)
    /\ LET pub == all_publication_info[itemIdx]
       IN  /\ \E served \in BOOLEAN :
                  all_citing_author_paper_tuple_list' =
                      all_citing_author_paper_tuple_list
                      \o citing_author_paper_info(
                             IF served THEN CitingPairs(pub) ELSE <<>>,
                             <<"publication", pub>>)
           /\ runLog' = Append(Slept(runLog), <<"get_citations", pub, CRAWL>>)
    /\ itemIdx' = itemIdx + 1
    /\ UNCHANGED <<runPc, fs, scholar_id, cache_path, cache_found,
                   affiliation_conservative, publications, all_publications,
                   all_publication_info, author_paper_affiliation_tuple_list,
                   geocoder_input, firstCrawl>>
    /\ UNCHANGED notRunVars

\* Lines 68 and 394-397: find_all_citing_authors returns; the list is
\* saved if caching is on and the list is not empty.
CrawlReturn ==
    /\ runPc = "cites"
    /\ itemIdx > Len(all_publication_info)
    /\ fs' = IF should_save(cache_path, all_citing_author_paper_tuple_list)
             THEN save_cache(fs, all_citing_author_paper_tuple_list, cache_path)
             ELSE fs
    /\ firstCrawl' =
           IF /\ cache_path # None
              /\ ~cache_found
              /\ all_citing_author_paper_tuple_list # <<>>
           THEN [firstCrawl EXCEPT ![scholar_id] = all_citing_author_paper_tuple_list]
           ELSE firstCrawl
    /\ runPc' = "affiliations"
    /\ itemIdx' = 1
    /\ UNCHANGED <<scholar_id, cache_path, cache_found, affiliation_conservative,
                   publications, all_publications, all_publication_info,
                   all_citing_author_paper_tuple_list,
                   author_paper_affiliation_tuple_list, geocoder_input, runLog>>
    /\ UNCHANGED notRunVars

\* The item the affiliation stage is at.
InAffiliations ==
    /\ runPc = "affiliations"
    /\ itemIdx <= Len(all_citing_author_paper_tuple_list)

\* One item of the affiliation stage done: result is the tuple or None,
\* requests are the sleeps and calls made for it.
AffiliationItem(result, requests) ==
    /\ InAffiliations
    /\ author_paper_affiliation_tuple_list' =
           Append(author_paper_affiliation_tuple_list, result)
    /\ runLog' = runLog \o requests
    /\ itemIdx' = itemIdx + 1
    /\ UNCHANGED <<runPc, fs, scholar_id, cache_path, cache_found,
                   affiliation_conservative, publications, all_publications,
                   all_publication_info, all_citing_author_paper_tuple_list,
                   geocoder_input, firstCrawl>>
    /\ UNCHANGED notRunVars

\* The pacing sleep without the author lookup.
AuthorLookup_SleepOnly(citing_author_id) == <<<<"sleep">>>>

\* Lines 271-273 and 252-254: the pacing sleep and the author lookup.
AuthorLookup(citing_author_id) ==
    <<<<"sleep">>, <<"search_author_id", citing_author_id, AFFILIATIONS>>>>

\* Lines 161-168: the two pacing sleeps and the organization page request.
OrganizationLookup(citing_author_id) ==
    <<<<"sleep">>, <<"sleep">>,
      <<"get_organization", citing_author_id, AFFILIATIONS>>>>

\* Lines 266-276: the aggressive lookup of one citing author.
AffiliationAggressive ==
    /\ InAffiliations
    /\ ~affiliation_conservative
    /\ LET item == all_citing_author_paper_tuple_list[itemIdx]
       IN  \E affiliation \in AffiliationsOf(item[1]) \cup {None} :
               AffiliationItem(
                   IF affiliation # None
                   THEN <<NameOf(item[1]), item[2], item[3], affiliation>>
                   ELSE None,
                   AuthorLookup(item[1]))

\* Lines 252-256 and 264: the author has no verified organization.
AffiliationConservativeNone ==
    /\ InAffiliations
    /\ affiliation_conservative
    /\ LET item == all_citing_author_paper_tuple_list[itemIdx]
       IN  AffiliationItem(None, AuthorLookup(item[1]))

\* Lines 252-263: the author has a verified organization; its page gives
\* the name, or get_organization_name raises and the warning is printed.
AffiliationConservativeOrganization ==
    /\ InAffiliations
    /\ affiliation_conservative
    /\ LET item == all_citing_author_paper_tuple_list[itemIdx]
       IN  \E parsed \in BOOLEAN :
               AffiliationItem(
                   IF parsed
                   THEN <<NameOf(item[1]), item[2], item[3], OrganizationOf(item[1])>>
                   ELSE None,
                   AuthorLookup(item[1]) \o OrganizationLookup(item[1]))

\* Lines 94-96: the stage is over; the empty items are filtered out.
AffiliationsReturn ==
    /\ runPc = "affiliations"
    /\ itemIdx > Len(all_citing_author_paper_tuple_list)
    /\ author_paper_affiliation_tuple_list' =
           SelectSeq(author_paper_affiliation_tuple_list, LAMBDA item : item # None)
    /\ runPc' = "normalize"
    /\ UNCHANGED <<fs, scholar_id, cache_path, cache_found,
                   affiliation_conservative, publications, all_publications,
                   all_publication_info, itemIdx,
                   all_citing_author_paper_tuple_list, geocoder_input, runLog,
                   firstCrawl>>
    /\ UNCHANGED notRunVars

\* Lines 413-434: the tuples are made unique; in the aggressive approach
\* they are cleaned and merged with the cleaned ones.
Normalize ==
    /\ runPc = "normalize"
    /\ geocoder_input' =
           IF affiliation_conservative
           THEN unique_tuples(author_paper_affiliation_tuple_list)
           ELSE merged_with_cleaned(unique_tuples(author_paper_affiliation_tuple_list))
    /\ runPc' = "geocode"
    /\ UNCHANGED <<fs, scholar_id, cache_path, cache_found,
                   affiliation_conservative, publications, all_publications,
                   all_publication_info, itemIdx,
                   all_citing_author_paper_tuple_list,
                   author_paper_affiliation_tuple_list, runLog, firstCrawl>>
    /\ UNCHANGED notRunVars

\* Lines 436-449: the set is geocoded (SpecGeo), the map and the csv file
\* are written, and the run returns.
RunFinish ==
    /\ runPc = "geocode"
    /\ EndRun
    /\ UNCHANGED <<fs, firstCrawl>>
    /\ UNCHANGED notRunVars

\* scholarly.search_author_id, scholarly.fill or the driver raises in the
\* call the run is about to make: the exception leaves
\* generate_citation_map.
RunRaises ==
    /\ \/ runPc = "profile"
       \/ runPc = "fill" /\ itemIdx <= publications
       \/ runPc = "cites" /\ itemIdx <= Len(all_publication_info)
       \/ InAffiliations
    /\ EndRun
    /\ UNCHANGED <<fs, firstCrawl>>
    /\ UNCHANGED notRunVars

NextRuns ==
    \/ RunStart
    \/ RunLoad
    \/ CrawlProfile
    \/ CrawlFill
    \/ CrawlBuildInfo
    \/ CrawlCites
    \/ CrawlReturn
    \/ AffiliationAggressive
    \/ AffiliationConservativeNone
    \/ AffiliationConservativeOrganization
    \/ AffiliationsReturn
    \/ Normalize
    \/ RunFinish
    \/ RunRaises

SpecRuns == InitRuns /\ [][NextRuns]_vars

-----------------------------------------------------------------------------
(* SpecSplit: __country_aware_comma_split on every list of one string of   *)
(* at most MaxParts comma-separated components.                            *)

\* The components: nothing, two names, a country and "UK".
Components == {<<>>, <<"Acme">>, <<"MIT">>, <<"USA">>, <<"UK">>}

\* The lists of 1..n components.
RECURSIVE ComponentLists(_)
ComponentLists(n) ==
    IF n = 0 THEN {}
    ELSE ComponentLists(n - 1)
         \cup {<<c>> : c \in Components}
         \cup {Append(l, c) : l \in {x \in ComponentLists(n - 1) : Len(x) = n - 1},
                              c \in Components}

\* The string of a list of components: the components with commas between.
RECURSIVE Joined(_)
Joined(components) ==
    IF Len(components) = 1 THEN components[1]
    ELSE Joined(SubSeq(components, 1, Len(components) - 1))
         \o <<",">> \o components[Len(components)]

InitSplit ==
    /\ splitPc = "ready"
    /\ \E components \in ComponentLists(MaxParts) :
           splitInput = <<Joined(components)>>
    /\ splitOutput = <<>>
    /\ IdleClean
    /\ IdleGeo
    /\ IdleWalk
    /\ IdleRuns

SplitCall ==
    /\ splitPc = "ready"
    /\ splitOutput' = country_aware_comma_split(splitInput)
    /\ splitPc' = "done"
    /\ UNCHANGED splitInput
    /\ UNCHANGED notSplitVars

NextSplit ==
    \/ SplitCall

SpecSplit == InitSplit /\ [][NextSplit]_vars

-----------------------------------------------------------------------------
(* Properties of clean_affiliation_names, checked under SpecClean.         *)

\* The role-identity markers, as lower-case token sequences.
RoleMarkers ==
    {<<"director">>, <<"manager">>, <<"chair">>, <<"engineer">>,
     <<"programmer">>, <<"scientist">>, <<"professor">>, <<"lecturer">>,
     <<"phd">>, <<"ph.d">>, <<"postdoc">>, <<"doctor">>, <<"student">>,
     <<"department", "of">>}

\* Some marker occurs in s as a case-insensitive whole-word match.
HasRoleMarker(s) ==
    \E m \in RoleMarkers, i \in 1..Len(s) :
        /\ i + Len(m) - 1 <= Len(s)
        /\ SubSeq(LowerSeq(s), i, i + Len(m) - 1) = m

\* What follows the last 'at' (any case) or '@' of s; s itself without one.
AfterLastAt(s) ==
    LET ats == {i \in 1..Len(s) : LowerSeq(s)[i] \in {"at", "@"}}
    IN  IF ats = {} THEN s
        ELSE SubSeq(s, (CHOOSE i \in ats : \A j \in ats : j <= i) + 1, Len(s))

\* The affiliation strings of a list of records, in order.
Affiliations(tuple_list) == [k \in 1..Len(tuple_list) |-> tuple_list[k][4]]

\* The units of the raw string the cleaner was called on.
RawUnits == substring_list(cleanInput[1][4])

\* The stripped units that survive when a unit is dropped for a marker
\* anywhere in its text before the strip.
RECURSIVE KeptByRawText(_)
KeptByRawText(units) ==
    IF units = <<>> THEN <<>>
    ELSE (IF HasRoleMarker(Head(units)) THEN <<>> ELSE <<AfterLastAt(Head(units))>>)
         \o KeptByRawText(Tail(units))

\* The stripped units that survive when a unit is dropped for a marker in
\* its text after the strip.
RECURSIVE KeptByStrippedText(_)
KeptByStrippedText(units) ==
    IF units = <<>> THEN <<>>
    ELSE (IF HasRoleMarker(AfterLastAt(Head(units))) THEN <<>>
          ELSE <<AfterLastAt(Head(units))>>)
         \o KeptByStrippedText(Tail(units))

\* C7 as stated: a unit whose text before the strip contains a role marker
\* as a whole word contributes nothing to the output, the text after its
\* 'at'/'@' included; every other unit contributes its stripped text.
C7_DroppedByRawText ==
    cleanPc = "cleaned" => Affiliations(cleanOutput) = KeptByRawText(RawUnits)

\* C7 amended: a unit is dropped exactly when its text after the 'at'/'@'
\* strip (what follows the last 'at' or '@') contains a role marker as a
\* whole word; a marker standing only before the 'at'/'@' is stripped with
\* the prefix and the rest of the unit is emitted.
C7_DroppedByStrippedText ==
    cleanPc = "cleaned" => Affiliations(cleanOutput) = KeptByStrippedText(RawUnits)

\* "Director at Acme" has been cleaned and yielded "Acme".
C7_Witness ==
    /\ cleanPc = "cleaned"
    /\ cleanInput[1][4] = <<"Director", "at", "Acme">>
    /\ Affiliations(cleanOutput) = <<<<"Acme">>>>

\* C8: no record returned by the cleaner has an affiliation string in which
\* a role marker occurs as a case-insensitive whole-word match.
C8_NoMarkerInOutput ==
    cleanPc # "ready" =>
        \A k \in 1..Len(cleanOutput) : ~HasRoleMarker(cleanOutput[k][4])

\* A unit with a marker after the strip was dropped while another unit of
\* the same string was emitted.
C8_Witness ==
    /\ cleanPc = "cleaned"
    /\ \E k \in 1..Len(RawUnits) : HasRoleMarker(AfterLastAt(RawUnits[k]))
    /\ Len(cleanOutput) >= 1

\* The first comma-separated component of u is a country name.
StartsWithCountry(u) ==
    LET commas == {i \in 1..Len(u) : u[i] \in COMMAS}
        first == IF commas = {} THEN Len(u) + 1
                 ELSE CHOOSE i \in commas : \A j \in commas : i <= j
    IN  iscountry(SubSeq(u, 1, first - 1))

\* C9 as stated: cleaning a returned unit again yields exactly that unit.
C9_RenormalizeIsIdentity ==
    cleanPc = "renormalized" =>
        \A k \in 1..Len(cleanOutput) : renormOutput[k] = <<cleanOutput[k]>>

\* C9 amended: cleaning a returned unit u again never splits or strips it
\* further: it yields exactly the single unit u, unless u begins with a
\* bare country name (left in front by the 'at'/'@' strip), and then it
\* yields nothing.
C9_RenormalizeKeepsOrDrops ==
    cleanPc = "renormalized" =>
        \A k \in 1..Len(cleanOutput) :
            renormOutput[k] = IF StartsWithCountry(cleanOutput[k][4]) THEN <<>>
                              ELSE <<cleanOutput[k]>>

\* A joined "part, country" unit was cleaned again and came back whole.
C9_Witness ==
    /\ cleanPc = "renormalized"
    /\ \E k \in 1..Len(cleanOutput) :
           /\ cleanOutput[k][4] = <<"Acme", ",", "USA">>
           /\ renormOutput[k] = <<cleanOutput[k]>>

-----------------------------------------------------------------------------
(* Properties of affiliation_text_to_geocode, checked under SpecGeo.       *)

\* The positions in geoLog of the forward-geocode calls made for a name.
CallsFor(name) == {i \in 1..Len(geoLog) : geoLog[i][1] = name}

\* Those of them that located the name.
LocatedCalls(name) == {i \in CallsFor(name) : geoLog[i][2] = "ok"}

\* The names the input list carries.
InputNames == {geoInput[i][4] : i \in 1..Len(geoInput)}

\* The positions of the input entries equal to rec.
InputEntries(rec) == {i \in 1..Len(geoInput) : geoInput[i] = rec}

\* The positions of the output records made from an input record equal to rec.
OutputOf(rec) ==
    {k \in 1..Len(coordinates_and_info) :
        SubSeq(coordinates_and_info[k], 1, 4) = rec}

\* The positions of the output records that carry a name.
OutputWith(name) ==
    {k \in 1..Len(coordinates_and_info) : coordinates_and_info[k][4] = name}

\* C4: every distinct name is located at most once however many records
\* share it, with exactly one forward-geocode call when its first attempt
\* succeeds; every input record that carries a located name is in the
\* output exactly once, and all records of one name have the same latitude
\* and longitude.
C4_OneResolutionPerName ==
    \A name \in InputNames :
        /\ Cardinality(LocatedCalls(name)) <= 1
        /\ (\E i \in LocatedCalls(name) : \A j \in CallsFor(name) : i <= j)
               => Cardinality(CallsFor(name)) = 1
        /\ LocatedCalls(name) # {} =>
               \A i \in 1..Len(geoInput) :
                   geoInput[i][4] = name =>
                       Cardinality(OutputOf(geoInput[i]))
                           = Cardinality(InputEntries(geoInput[i]))
        /\ \A k, l \in OutputWith(name) :
               /\ coordinates_and_info[k][5] = coordinates_and_info[l][5]
               /\ coordinates_and_info[k][6] = coordinates_and_info[l][6]

\* Two records share a name that was located by a single call, and both
\* are in the returned list.
C4_Witness ==
    /\ geoPc = "done"
    /\ \E i, j \in 1..Len(geoInput) :
           /\ i # j
           /\ geoInput[i] # geoInput[j]
           /\ geoInput[i][4] = geoInput[j][4]
           /\ Cardinality(CallsFor(geoInput[i][4])) = 1
           /\ OutputOf(geoInput[i]) # {}
           /\ OutputOf(geoInput[j]) # {}

\* The keys of the override table that name contains, each as a
\* case-insensitive run of whole words.
KnownKeysIn(name) ==
    {key \in DOMAIN KNOWN_AFFILIATION_DICT :
        \E i \in 1..Len(name) :
            /\ i + Len(key) - 1 <= Len(name)
            /\ SubSeq(LowerSeq(name), i, i + Len(key) - 1) = key}

\* C5: for a name that contains a key of the override table no call is
\* made to the geocoding service, and the records returned for it carry the
\* table's coordinates and address.
C5_KnownNamesBypassGeocoder ==
    \A name \in InputNames :
        \A key \in KnownKeysIn(name) :
            /\ CallsFor(name) = {}
            /\ geoPc = "done" =>
                   /\ OutputWith(name) # {}
                   /\ \A k \in OutputWith(name) :
                          /\ coordinates_and_info[k][5] = KNOWN_AFFILIATION_DICT[key][5]
                          /\ coordinates_and_info[k][6] = KNOWN_AFFILIATION_DICT[key][6]
                          /\ coordinates_and_info[k][10] = <<KNOWN_AFFILIATION_DICT[key][4]>>

\* C6: at most max_attempts forward-geocode attempts are made for a name
\* and none after the attempt whose forward and reverse lookups both
\* succeed; a name whose attempts all fail is in no returned record; the
\* function always goes on to its return; every emitted record carries the
\* latitude and longitude of a successful lookup of its name.
C6_BoundedAttempts ==
    /\ \A name \in InputNames :
           /\ Cardinality(CallsFor(name)) <= max_attempts
           /\ \A i \in LocatedCalls(name) : \A j \in CallsFor(name) : j <= i
           /\ (geoPc = "done" /\ LocatedCalls(name) = {}) =>
                  /\ OutputWith(name) = {}
                  /\ Cardinality(CallsFor(name)) = max_attempts
    /\ \A k \in 1..Len(coordinates_and_info) :
           \E i \in LocatedCalls(coordinates_and_info[k][4]) :
               /\ coordinates_and_info[k][5] = geoLog[i][3]
               /\ coordinates_and_info[k][6] = geoLog[i][4]
    /\ geoPc \in {"start", "loop"} => ENABLED NextGeo

\* The call returned; one name failed all its max_attempts >= 2 attempts
\* and is in no record, another was located after a failed attempt.
C6_Witness ==
    /\ geoPc = "done"
    /\ max_attempts >= 2
    /\ \E name \in InputNames :
           /\ LocatedCalls(name) = {}
           /\ Cardinality(CallsFor(name)) = max_attempts
           /\ OutputWith(name) = {}
    /\ \E name \in InputNames :
           /\ LocatedCalls(name) # {}
           /\ Cardinality(CallsFor(name)) >= 2
           /\ OutputWith(name) # {}

-----------------------------------------------------------------------------
(* Properties of get_citing_author_ids_and_citing_papers, checked under    *)
(* SpecWalk.                                                               *)

\* The pages requested so far, in order.
RECURSIVE PagesGot(_)
PagesGot(log) ==
    IF log = <<>> THEN <<>>
    ELSE (IF Head(log)[1] = "get" THEN <<Head(log)[2]>> ELSE <<>>) \o PagesGot(Tail(log))

\* The chain of pages from page k on: page k, then, as long as the last
\* page of the chain shows a link numbered one more than its own number,
\* that page.
RECURSIVE ChainFrom(_)
ChainFrom(k) ==
    IF \E i \in 1..Len(site[k].links) : site[k].links[i] = k + 1
    THEN <<k>> \o ChainFrom(k + 1)
    ELSE <<k>>

\* The records of a sequence of pages.
RecordsOf(pages) ==
    Flatten([i \in 1..Len(pages) |-> get_html_per_citation_page(site[pages[i]], pages[i])])

\* C10: the walk fetches exactly the chain of pages 1, 2, 3, ... in which
\* page k + 1 is reached through the link numbered k + 1 shown on page k,
\* it stops at the first page without such a link (a seed page without one
\* gives exactly one fetch), and it returns the records of every page of
\* the chain.
C10_WalkFollowsChain ==
    walkPc = "done" =>
        /\ PagesGot(walkLog) = ChainFrom(1)
        /\ citing_authors_and_citing_papers = RecordsOf(ChainFrom(1))

-----------------------------------------------------------------------------
(* Properties of generate_citation_map, checked under SpecRuns.            *)

\* The requests of a log: everything but the pacing sleeps.
Requests(log) == SelectSeq(log, LAMBDA entry : entry[1] # "sleep")

\* The requests of a log that one function issued.
RequestsBy(log, function) ==
    SelectSeq(Requests(log), LAMBDA entry : entry[3] = function)

\* The stages of a run after all_citing_author_paper_tuple_list is handed
\* to find_all_citing_affiliations.
HandedOver == {"affiliations", "normalize", "geocode"}

\* C1: once a run with caching that found no checkpoint has crawled a
\* non-empty list L for an author id, every later run with caching for
\* that author id is never in a stage of find_all_citing_authors, has
\* issued no profile, publication-fill or citation-enumeration request,
\* and hands exactly L to find_all_citing_affiliations.  (The run that
\* crawled L is the only one with L recorded and no checkpoint found; it
\* is past its crawl when L is recorded.)
C1_CheckpointRoundTrip ==
    (runPc # "idle" /\ cache_path # None /\ firstCrawl[scholar_id] # <<>>) =>
        /\ runPc \notin {"profile", "fill", "cites"}
        /\ cache_found => RequestsBy(runLog, CRAWL) = <<>>
        /\ runPc \in HandedOver =>
               all_citing_author_paper_tuple_list = firstCrawl[scholar_id]

\* A later run found the checkpoint of an earlier crawl of two or more
\* records and is through its affiliation stage with exactly that list.
C1_Witness ==
    /\ runPc = "normalize"
    /\ cache_found
    /\ Len(firstCrawl[scholar_id]) >= 2
    /\ all_citing_author_paper_tuple_list = firstCrawl[scholar_id]
    /\ RequestsBy(runLog, CRAWL) = <<>>

LookupsFor(tuple_list, n) ==
    [k \in 1..n |-> <<"search_author_id", tuple_list[k][1], AFFILIATIONS>>]

C3_CheckpointWrittenOnce ==
    [][\A path \in CachePaths :
           fs'[path] # fs[path] =>
               /\ fs[path] = NoFile
               /\ runPc = "cites" /\ runPc' = "affiliations"
               /\ ~cache_found
               /\ path = cache_path
               /\ all_citing_author_paper_tuple_list # <<>>
               /\ fs'[path] = Pickle(all_citing_author_paper_tuple_list)]_vars

\* A run with caching crawled an empty list and left no checkpoint, while
\* the checkpoint an earlier run wrote for the other author is still the
\* pickle of what that run crawled.
C3_Witness ==
    /\ runPc = "affiliations"
    /\ cache_path # None
    /\ ~cache_found
    /\ all_citing_author_paper_tuple_list = <<>>
    /\ fs[cache_path] = NoFile
    /\ \E id \in ScholarIds :
           /\ firstCrawl[id] # <<>>
           /\ fs[CachePathOf(<<"cache">>, id)] = Pickle(firstCrawl[id])

\* The stages of a run that loop over work items, one external call each.
ItemStages == {"fill", "cites", "affiliations"}

\* C11: a run never leaves generate_citation_map from a stage that loops
\* over work items: whatever the external call of one item does, the
\* other items are processed and the run goes on to its later stages.
C11_FailureNeverAbortsRun ==
    [][(runPc \in ItemStages) => (runPc' # "idle")]_vars

\* A list without two equal elements.
NoDuplicates(tuple_list) ==
    \A i, j \in 1..Len(tuple_list) : tuple_list[i] = tuple_list[j] => i = j

\* The records clean_affiliation_names gives for one raw record.
CleanedOf(record) == SetOf(clean_affiliation_names(<<record>>))

\* C12: the list handed to the geocoder holds no tuple twice; in the
\* aggressive approach its tuples are the raw records together with the
\* cleaned records of every raw record, so every raw record is in it, also
\* one whose cleaning yields nothing; in the conservative approach its
\* tuples are exactly the raw records.
C12_GeocoderInputIsMergedSet ==
    runPc = "geocode" =>
        LET raw == SetOf(author_paper_affiliation_tuple_list)
        IN  /\ NoDuplicates(geocoder_input)
            /\ raw \subseteq SetOf(geocoder_input)
            /\ affiliation_conservative => SetOf(geocoder_input) = raw
            /\ ~affiliation_conservative =>
                   SetOf(geocoder_input) = raw \cup UNION {CleanedOf(r) : r \in raw}

\* An aggressive run hands over a raw record whose cleaning yields
\* nothing, a raw record together with a different cleaned record of it,
\* and a raw record that is its own cleaned record.
C12_Witness ==
    /\ runPc = "geocode"
    /\ ~affiliation_conservative
    /\ LET raw == SetOf(author_paper_affiliation_tuple_list)
       IN  /\ \E r \in raw : CleanedOf(r) = {} /\ r \in SetOf(geocoder_input)
           /\ \E r \in raw : \E c \in CleanedOf(r) :
                  c # r /\ c \in SetOf(geocoder_input)
           /\ \E r \in raw : r \in CleanedOf(r)

\* The author lookups of the affiliation stage so far, in order.
AuthorLookups(log) ==
    SelectSeq(RequestsBy(log, AFFILIATIONS),
              LAMBDA entry : entry[1] = "search_author_id")

\* C13: in a run, no citing-author identifier is looked up twice by the
\* affiliation stage.
C13_OneLookupPerAuthor == NoDuplicates(AuthorLookups(runLog))

\* C14: no tuple handed to the affiliation stage carries the placeholder
\* of a paper without author link as its author identifier.
C14_NoPlaceholderAuthor ==
    runPc \in HandedOver =>
        \A k \in 1..Len(all_citing_author_paper_tuple_list) :
            all_citing_author_paper_tuple_list[k][1] # NO_AUTHOR_FOUND_STR

-----------------------------------------------------------------------------
(* Further properties of get_citing_author_ids_and_citing_papers, checked  *)
(* under SpecWalk.                                                         *)

\* C15: a block page fetched after the seed page is the last page the
\* walk requests, and the walk returns the records of the pages fetched
\* before it.
C15_WalkStopsAtBlockPage ==
    LET got == PagesGot(walkLog)
    IN  \A i \in 2..Len(got) :
            site[got[i]].blocked =>
                /\ i = Len(got)
                /\ walkPc = "done" =>
                       citing_authors_and_citing_papers
                           = RecordsOf(SubSeq(got, 1, i - 1))

-----------------------------------------------------------------------------
(* Properties of __country_aware_comma_split, checked under SpecSplit.     *)

\* "part, country" as the split emits it.
WithCountry(part, country) == part \o <<",">> \o country

\* C16: every non-empty component that is no country name and is
\* immediately followed by a country name is in the result joined with
\* that country name, wherever it stands in the comma-separated list.
C16_JoinedWithFollowingCountry ==
    splitPc = "done" =>
        LET sub_parts == SplitOn(splitInput[1], COMMAS)
        IN  \A i \in 1..(Len(sub_parts) - 1) :
                (/\ sub_parts[i] # <<>>
                 /\ ~iscountry(sub_parts[i])
                 /\ iscountry(sub_parts[i + 1])) =>
                    WithCountry(sub_parts[i], sub_parts[i + 1])
                        \in SetOf(splitOutput)

-----------------------------------------------------------------------------
(* Further properties of clean_affiliation_names, checked under SpecClean. *)

\* C17: no record returned by clean_affiliation_names has an empty
\* affiliation string.
C17_NoEmptyAffiliation ==
    \A k \in 1..Len(cleanOutput) : cleanOutput[k][4] # <<>>

-----------------------------------------------------------------------------
(* Further properties of generate_citation_map, checked under SpecRuns.    *)

\* C18: every request of a run comes directly after a pacing sleep.
C18_EveryRequestPaced ==
    \A i \in 1..Len(runLog) :
        runLog[i][1] # "sleep" => (i > 1 /\ runLog[i - 1][1] = "sleep")

=============================================================================
